---- MODULE Spec2Model ----
(***************************************************************************)
(* A model of LinkedBST (src/linkedbst.py): a link-based binary search     *)
(* tree with add, remove, clear, rebalance and its query methods.          *)
(*                                                                         *)
(* Python values are tagged records, so that the truth value Python gives  *)
(* a value (None and 0 are false, a node and a non-zero int are true) is   *)
(* computed as the interpreter computes it.  Nodes are exclusively owned,  *)
(* so a tree is the value of its root node: [t, data, left, right], and a  *)
(* reference to a node inside it is the path of links leading to it.       *)
(***************************************************************************)
EXTENDS Integers, Sequences, FiniteSets

VARIABLES root, size, op, ret, pre, contents

vars == <<root, size, op, ret, pre, contents>>

(* ------------------------------ bounds -------------------------------- *)

MaxNodes == 4
MaxItem == 2

Items == (-1)..MaxItem
Queries == (-2)..(MaxItem + 1)
Lows == {-1, 0}
Highs == {0, MaxItem}

(* --------------------------- Python values ---------------------------- *)

None == [t |-> "None"]
PyInt(i) == [t |-> "int", v |-> i]
PyBool(b) == [t |-> "bool", v |-> b]
PyList(s) == [t |-> "list", v |-> s]
PySelf == [t |-> "LinkedBST"]

BSTNode(data) == [t |-> "BSTNode", data |-> data, left |-> None, right |-> None]

\* bool(x), and the test of `if x:` / `while x:` / `not x`
Truthy(x) ==
  CASE x.t = "None" -> FALSE
    [] x.t = "int" -> x.v # 0
    [] x.t = "bool" -> x.v
    [] x.t = "list" -> Len(x.v) # 0
    [] OTHER -> TRUE

Returns(v) == [exc |-> "none", val |-> v]
Raises(e) == [exc |-> e, val |-> None]

\* AbstractCollection.isEmpty: the cached size is zero
isEmpty(self) == self.size = 0

(* ------------------------- references to nodes ------------------------ *)

RECURSIVE At(_, _)
At(tree, path) ==
  IF path = <<>> THEN tree
  ELSE IF Head(path) = "L" THEN At(tree.left, Tail(path))
  ELSE At(tree.right, Tail(path))

RECURSIVE Assign(_, _, _, _)
\* the tree after `<node at path>.<field> = value`
Assign(tree, path, field, value) ==
  IF path = <<>> THEN [tree EXCEPT ![field] = value]
  ELSE IF Head(path) = "L"
    THEN [tree EXCEPT !.left = Assign(tree.left, Tail(path), field, value)]
    ELSE [tree EXCEPT !.right = Assign(tree.right, Tail(path), field, value)]

(* ------------------------------- queries ------------------------------ *)

RECURSIVE inorder_recurse(_)
inorder_recurse(node) ==
  IF Truthy(node)
    THEN inorder_recurse(node.left) \o <<node.data>> \o inorder_recurse(node.right)
    ELSE <<>>

inorder(self) == inorder_recurse(self.root)

RECURSIVE find_recurse(_, _)
find_recurse(node, item) ==
  IF node = None THEN None
  ELSE IF item = node.data THEN PyInt(node.data)
  ELSE IF item < node.data THEN find_recurse(node.left, item)
  ELSE find_recurse(node.right, item)

find(self, item) == find_recurse(self.root, item)

contains(self, item) == Truthy(find(self, item))

Max(a, b) == IF a >= b THEN a ELSE b

RECURSIVE height1(_)
height1(top) ==
  IF ~Truthy(top) THEN 0
  ELSE Max(height1(top.left), height1(top.right)) + 1

height(self) == height1(self.root) - 1

RECURSIVE num_nasch(_)
num_nasch(top) ==
  (IF Truthy(top.left) THEN 1 + num_nasch(top.left) ELSE 0)
  + (IF Truthy(top.right) THEN 1 + num_nasch(top.right) ELSE 0)

\* num_nasch reads top.left of the root without testing it: on the empty
\* tree the root is None and the attribute access raises AttributeError
num_vert(self) ==
  IF self.root = None THEN Raises("AttributeError")
  ELSE Returns(PyInt(num_nasch(self.root) + 1))

\* floor(e^(k/2)) for k = 1..10; e^(k/2) is irrational, so for integers
\* h and m:  h < 2*log(m) - 1  iff  m > floor(e^((h+1)/2))
ExpHalf == <<1, 2, 4, 7, 12, 20, 33, 54, 90, 148>>

LessThanLogBound(h, m) == IF h + 1 = 0 THEN m > 1 ELSE m > ExpHalf[h + 1]

is_balanced(self) ==
  LET n == num_vert(self) IN
  IF n.exc # "none" THEN n
  ELSE Returns(PyBool(LessThanLogBound(height(self), n.val.v + 1)))

range_find(self, low, high) ==
  SelectSeq(inorder(self), LAMBDA x : low <= x /\ x <= high)

RECURSIVE successor_recurs(_, _)
successor_recurs(top, item) ==
  IF Truthy(top) THEN
    IF top.data <= item THEN
      LET answ == successor_recurs(top.right, item) IN
      IF Truthy(answ) THEN answ ELSE None
    ELSE
      LET answ == successor_recurs(top.left, item) IN
      IF Truthy(answ) THEN answ ELSE PyInt(top.data)
  ELSE None

successor(self, item) == successor_recurs(self.root, item)

RECURSIVE predecessor_recurs(_, _)
predecessor_recurs(top, item) ==
  IF Truthy(top) THEN
    IF top.data >= item THEN
      LET answ == predecessor_recurs(top.left, item) IN
      IF Truthy(answ) THEN answ ELSE None
    ELSE
      LET answ == predecessor_recurs(top.right, item) IN
      IF Truthy(answ) THEN answ ELSE PyInt(top.data)
  ELSE None

predecessor(self, item) == predecessor_recurs(self.root, item)

(* ------------------------------ mutators ------------------------------ *)

\* clear that forgets to reset the cached size
clear_keeps_size(self) == [root |-> None, size |-> self.size]

clear(self) == [root |-> None, size |-> 0]

RECURSIVE add_recurse_flipped(_, _)
\* add's descent with the comparison turned round: greater items go left
add_recurse_flipped(node, item) ==
  IF item > node.data THEN
    IF ~Truthy(node.left)
      THEN [node EXCEPT !.left = BSTNode(item)]
      ELSE [node EXCEPT !.left = add_recurse_flipped(node.left, item)]
  ELSE IF ~Truthy(node.right)
    THEN [node EXCEPT !.right = BSTNode(item)]
    ELSE [node EXCEPT !.right = add_recurse_flipped(node.right, item)]

RECURSIVE add_recurse(_, _)
\* the node after recurse(node) has linked the new leaf below it
add_recurse(node, item) ==
  IF item < node.data THEN
    IF ~Truthy(node.left)
      THEN [node EXCEPT !.left = BSTNode(item)]
      ELSE [node EXCEPT !.left = add_recurse(node.left, item)]
  ELSE IF ~Truthy(node.right)
    THEN [node EXCEPT !.right = BSTNode(item)]
    ELSE [node EXCEPT !.right = add_recurse(node.right, item)]

add(self, item) ==
  [root |-> IF isEmpty(self) THEN BSTNode(item) ELSE add_recurse(self.root, item),
   size |-> self.size + 1]

RECURSIVE lift_loop(_, _, _)
\* `while current_node.right:` of lift_max_in_left_subtree_to_top
lift_loop(tree, parent, current_node) ==
  IF Truthy(At(tree, current_node).right)
    THEN lift_loop(tree, current_node, current_node \o <<"R">>)
    ELSE [parent |-> parent, current_node |-> current_node]

lift_max_in_left_subtree_to_top(tree, top) ==
  LET found == lift_loop(tree, top, top \o <<"L">>)
      current_node == At(tree, found.current_node)
      lifted == Assign(tree, top, "data", current_node.data)
  IN IF found.parent = top
       THEN Assign(lifted, top, "left", current_node.left)
       ELSE Assign(lifted, found.parent, "right", current_node.left)

RECURSIVE remove_loop(_, _, _, _)
\* `while current_node:` of remove; direction is the last link of the path
remove_loop(tree, item, parent, current_node) ==
  LET node == At(tree, current_node) IN
  IF ~Truthy(node)
    THEN [item_removed |-> None, parent |-> parent, current_node |-> current_node]
  ELSE IF node.data = item
    THEN [item_removed |-> PyInt(node.data), parent |-> parent,
          current_node |-> current_node]
  ELSE IF node.data > item
    THEN remove_loop(tree, item, current_node, current_node \o <<"L">>)
    ELSE remove_loop(tree, item, current_node, current_node \o <<"R">>)

\* the splice of remove with the tracked direction mixed up
remove_unlink_wrong_side(tree, found) ==
  LET current_node == At(tree, found.current_node)
      direction == found.current_node[Len(found.current_node)]
  IN IF Truthy(current_node.left) /\ Truthy(current_node.right)
       THEN lift_max_in_left_subtree_to_top(tree, found.current_node)
       ELSE LET new_child == IF ~Truthy(current_node.left)
                               THEN current_node.right
                               ELSE current_node.left
            IN IF direction = "L"
                 THEN Assign(tree, found.parent, "right", new_child)
                 ELSE Assign(tree, found.parent, "left", new_child)

remove_unlink(tree, found) ==
  LET current_node == At(tree, found.current_node)
      direction == found.current_node[Len(found.current_node)]
  IN IF Truthy(current_node.left) /\ Truthy(current_node.right)
       THEN lift_max_in_left_subtree_to_top(tree, found.current_node)
       ELSE LET new_child == IF ~Truthy(current_node.left)
                               THEN current_node.right
                               ELSE current_node.left
            IN IF direction = "L"
                 THEN Assign(tree, found.parent, "left", new_child)
                 ELSE Assign(tree, found.parent, "right", new_child)

\* the whole method: the tree afterwards and what the call returned or raised
remove(self, item) ==
  IF ~contains(self, item) THEN [self |-> self, ret |-> Raises("KeyError")]
  ELSE IF isEmpty(self) THEN [self |-> self, ret |-> Returns(None)]
  ELSE
    LET pre_root == [BSTNode(None) EXCEPT !.left = self.root]
        found == remove_loop(pre_root, item, <<>>, <<"L">>)
    IN IF ~Truthy(found.item_removed) THEN [self |-> self, ret |-> Returns(None)]
       ELSE
         LET unlinked == remove_unlink(pre_root, found)
             shrunk == [root |-> self.root, size |-> self.size - 1]
         IN [self |-> [root |-> IF isEmpty(shrunk) THEN None ELSE unlinked.left,
                       size |-> shrunk.size],
             ret |-> Returns(found.item_removed)]

RECURSIVE rebalance_recurs_short_left(_, _)
\* the rebuild with the left slice one item short: lyst[0:len(lyst) // 2 - 1]
rebalance_recurs_short_left(lyst, tree) ==
  IF Len(lyst) # 0 THEN
    LET mid == Len(lyst) \div 2
        elem == lyst[mid + 1]
        t1 == add(tree, elem)
        t2 == rebalance_recurs_short_left(SubSeq(lyst, 1, mid - 1), t1)
    IN rebalance_recurs_short_left(SubSeq(lyst, mid + 2, Len(lyst)), t2)
  ELSE tree

RECURSIVE rebalance_recurs_first(_, _)
\* the rebuild taking the first item of the slice instead of the middle one
rebalance_recurs_first(lyst, tree) ==
  IF Len(lyst) # 0 THEN
    LET mid == 0
        elem == lyst[mid + 1]
        t1 == add(tree, elem)
        t2 == rebalance_recurs_first(SubSeq(lyst, 1, mid), t1)
    IN rebalance_recurs_first(SubSeq(lyst, mid + 2, Len(lyst)), t2)
  ELSE tree

RECURSIVE rebalance_recurs(_, _)
rebalance_recurs(lyst, tree) ==
  IF Len(lyst) # 0 THEN
    LET mid == Len(lyst) \div 2
        elem == lyst[mid + 1]
        t1 == add(tree, elem)
        t2 == rebalance_recurs(SubSeq(lyst, 1, mid), t1)
    IN rebalance_recurs(SubSeq(lyst, mid + 2, Len(lyst)), t2)
  ELSE tree

rebalance(self) == rebalance_recurs(inorder(self), clear(self))

(* ------------------------------- actions ------------------------------ *)

Self == [root |-> root, size |-> size]
EmptyBag == [i \in Items |-> 0]

Init ==
  /\ root = None
  /\ size = 0
  /\ op = [name |-> "init", args |-> <<>>]
  /\ ret = Returns(None)
  /\ pre = [root |-> None, size |-> 0]
  /\ contents = EmptyBag

\* a call that leaves the tree alone
Query(name, args, result) ==
  /\ op' = [name |-> name, args |-> args]
  /\ ret' = result
  /\ pre' = Self
  /\ UNCHANGED <<root, size, contents>>

\* a call that leaves the tree as `after`
Mutate(name, args, after, result) ==
  /\ op' = [name |-> name, args |-> args]
  /\ ret' = result
  /\ pre' = Self
  /\ root' = after.root
  /\ size' = after.size

Add(item) ==
  /\ size < MaxNodes
  /\ Mutate("add", <<item>>, add(Self, item), Returns(None))
  /\ contents' = [contents EXCEPT ![item] = @ + 1]

Remove(item) ==
  LET out == remove(Self, item) IN
  /\ Mutate("remove", <<item>>, out.self, out.ret)
  /\ contents' = IF out.ret.exc = "none" /\ out.ret.val # None
                   THEN [contents EXCEPT ![item] = @ - 1]
                   ELSE contents

Clear ==
  /\ Mutate("clear", <<>>, clear(Self), Returns(None))
  /\ contents' = EmptyBag

Rebalance ==
  /\ Mutate("rebalance", <<>>, rebalance(Self), Returns(PySelf))
  /\ UNCHANGED contents

Find(item) ==
  /\ Query("find", <<item>>, Returns(find(Self, item)))

Contains(item) ==
  /\ Query("contains", <<item>>, Returns(PyBool(contains(Self, item))))

Inorder ==
  /\ Query("inorder", <<>>, Returns(PyList(inorder(Self))))

Height ==
  /\ Query("height", <<>>, Returns(PyInt(height(Self))))

NumVert ==
  /\ Query("num_vert", <<>>, num_vert(Self))

IsBalanced ==
  /\ Query("is_balanced", <<>>, is_balanced(Self))

RangeFind(low, high) ==
  /\ Query("range_find", <<low, high>>, Returns(PyList(range_find(Self, low, high))))

Successor(item) ==
  /\ Query("successor", <<item>>, Returns(successor(Self, item)))

Predecessor(item) ==
  /\ Query("predecessor", <<item>>, Returns(predecessor(Self, item)))

Next ==
  \/ \E item \in Items : Add(item)
  \/ \E item \in Items : Remove(item)
  \/ Clear
  \/ Rebalance
  \/ \E item \in Items : Find(item)
  \/ \E item \in Items : Contains(item)
  \/ Inorder
  \/ Height
  \/ NumVert
  \/ IsBalanced
  \/ \E low \in Lows, high \in Highs : RangeFind(low, high)
  \/ \E item \in Queries : Successor(item)
  \/ \E item \in Queries : Predecessor(item)

Spec == Init /\ [][Next]_vars

\* a tree built by add calls alone and then read
NextBuild ==
  \/ \E item \in Items : Add(item)
  \/ Inorder
  \/ \E item \in Queries : Successor(item)
  \/ \E item \in Queries : Predecessor(item)

SpecBuild == Init /\ [][NextBuild]_vars

(* ---------------------- vocabulary of the claims ---------------------- *)

RECURSIVE ItemsOf(_)
ItemsOf(node) ==
  IF node = None THEN {}
  ELSE ItemsOf(node.left) \cup {node.data} \cup ItemsOf(node.right)

RECURSIVE CountNodes(_)
CountNodes(node) ==
  IF node = None THEN 0
  ELSE CountNodes(node.left) + 1 + CountNodes(node.right)

RECURSIVE StrictlyOrdered(_)
StrictlyOrdered(node) ==
  node # None =>
    /\ \A x \in ItemsOf(node.left) : x < node.data
    /\ \A x \in ItemsOf(node.right) : x >= node.data
    /\ StrictlyOrdered(node.left)
    /\ StrictlyOrdered(node.right)

RECURSIVE WeaklyOrdered(_)
WeaklyOrdered(node) ==
  node # None =>
    /\ \A x \in ItemsOf(node.left) : x <= node.data
    /\ \A x \in ItemsOf(node.right) : x >= node.data
    /\ WeaklyOrdered(node.left)
    /\ WeaklyOrdered(node.right)

NonDecreasing(lyst) == \A k \in 1..(Len(lyst) - 1) : lyst[k] <= lyst[k + 1]

BagOf(lyst) == [i \in Items |-> Cardinality({k \in 1..Len(lyst) : lyst[k] = i})]

Distinct(lyst) == \A j, k \in 1..Len(lyst) : lyst[j] = lyst[k] => j = k

WithoutOne(lyst, x) ==
  LET k == CHOOSE k \in 1..Len(lyst) :
             lyst[k] = x /\ \A j \in 1..(k - 1) : lyst[j] # x
  IN SubSeq(lyst, 1, k - 1) \o SubSeq(lyst, k + 1, Len(lyst))

Least(S) == CHOOSE x \in S : \A y \in S : x <= y
Greatest(S) == CHOOSE x \in S : \A y \in S : x >= y

SmallestAbove(node, q) ==
  LET above == {x \in ItemsOf(node) : x > q}
  IN IF above = {} THEN None ELSE PyInt(Least(above))

LargestBelow(node, q) ==
  LET below == {x \in ItemsOf(node) : x < q}
  IN IF below = {} THEN None ELSE PyInt(Greatest(below))

FloorLog2(n) == CHOOSE k \in 0..n : 2 ^ k <= n /\ n < 2 ^ (k + 1)

Children(node) ==
  (IF node.left # None THEN 1 ELSE 0) + (IF node.right # None THEN 1 ELSE 0)

Arg == op.args[1]
Before == pre.root
Removed == op.name = "remove" /\ ret.exc = "none" /\ ret.val # None

(* ------------------------------- claims ------------------------------- *)

\* C1 as stated: in every reachable state every node's left subtree holds
\* only items strictly less than the node's item, and its right subtree only
\* items greater than or equal to it.
C1_StrictOrdering == StrictlyOrdered(root)

\* C1 amended: in every reachable state every node's left subtree holds only
\* items less than or equal to the node's item and its right subtree only
\* items greater than or equal to it (remove's lift of the left maximum can
\* leave an equal item on the left).
C1_Ordering == WeaklyOrdered(root)

\* a two-children remove has lifted a duplicate: an equal item sits on the left
C1_Witness ==
  /\ Removed
  /\ Children(At(Before, remove_loop(Before, Arg, <<>>, <<>>).current_node)) = 2
  /\ ~StrictlyOrdered(root)

\* C2: after add calls alone, inorder() returns a non-decreasing list holding
\* exactly the multiset of the items added.
C2_InorderSorted ==
  op.name = "inorder" =>
    /\ ret.exc = "none"
    /\ NonDecreasing(ret.val.v)
    /\ BagOf(ret.val.v) = contents

C2_Witness ==
  /\ op.name = "inorder"
  /\ Len(ret.val.v) >= 3
  /\ ~Distinct(ret.val.v)
  /\ height(Self) = 1

\* C3: the cached size equals the number of nodes reachable from the root,
\* and it is 0 exactly when the root is None.
C3_Size ==
  /\ size = CountNodes(root)
  /\ (size = 0) <=> (root = None)

\* a remove has emptied the tree, and a failing remove has left a tree alone
C3_Witness ==
  \/ Removed /\ pre.size = 1 /\ root = None
  \/ op.name = "remove" /\ ret.exc = "KeyError" /\ size = 2

\* C4: contains(x) is true of every item x added and not removed since, 0
\* included; and with all keys distinct, contains(x) is false right after a
\* successful remove(x).
C4_Membership ==
  /\ op.name = "contains" /\ contents[Arg] > 0 => ret.val = PyBool(TRUE)
  /\ Removed /\ Distinct(inorder(pre)) => ~contains(Self, Arg)

\* C5: on a tree built with add from distinct items, successor(q) is the
\* smallest stored item above q and predecessor(q) the largest below q, None
\* when there is none, whether or not q is stored.
C5_Neighbours ==
  Distinct(inorder(Self)) =>
    /\ op.name = "successor" => ret.val = SmallestAbove(root, Arg)
    /\ op.name = "predecessor" => ret.val = LargestBelow(root, Arg)

\* C6: remove(item) raises KeyError exactly when no stored item equals item,
\* and then leaves the root, every node and size as they were.
C6_RemoveAbsent ==
  op.name = "remove" =>
    /\ (ret.exc = "KeyError") <=> (Arg \notin ItemsOf(Before))
    /\ ret.exc = "KeyError" => root = Before /\ size = pre.size

\* C7: remove(x) of a stored x returns an item equal to x, decrements size by
\* one and leaves inorder() as it was with one occurrence of x deleted.
C7_RemoveStored ==
  op.name = "remove" /\ Arg \in ItemsOf(Before) =>
    /\ ret = Returns(PyInt(Arg))
    /\ size = pre.size - 1
    /\ inorder(Self) = WithoutOne(inorder(pre), Arg)

\* C8: rebalance() keeps the multiset of items and size, and returns the
\* tree itself.
C8_RebalanceContent ==
  op.name = "rebalance" =>
    /\ BagOf(inorder(Self)) = BagOf(inorder(pre))
    /\ size = pre.size
    /\ ret = Returns(PySelf)

C8_Witness ==
  /\ op.name = "rebalance"
  /\ size >= 3
  /\ ~Distinct(inorder(Self))
  /\ root # Before

\* C9 as stated: after rebalance() of any tree of n >= 1 items, height() is
\* floor(log2 n) and no greater than height() before.
C9_MinimalHeight ==
  op.name = "rebalance" /\ size >= 1 =>
    /\ height(Self) = FloorLog2(size)
    /\ height(Self) <= height(pre)

\* C9 amended: after rebalance() of a tree of n >= 1 pairwise distinct
\* items, height() is floor(log2 n) and no greater than height() before.
C9_MinimalHeightDistinct ==
  op.name = "rebalance" /\ size >= 1 /\ Distinct(inorder(pre)) =>
    /\ height(Self) = FloorLog2(size)
    /\ height(Self) <= height(pre)

\* a chain of four distinct items has been rebuilt to height 2
C9_Witness ==
  /\ op.name = "rebalance"
  /\ size = 4
  /\ Distinct(inorder(pre))
  /\ height(pre) = 3
  /\ height(Self) = 2

\* C10: find, height, num_vert, is_balanced, successor, predecessor and
\* range_find never raise; on the empty tree find returns None, height -1,
\* num_vert the size 0 and is_balanced a boolean.
C10_Total ==
  /\ op.name \in {"find", "height", "num_vert", "is_balanced", "successor",
                  "predecessor", "range_find"} => ret.exc = "none"
  /\ root = None =>
       /\ op.name = "find" => ret = Returns(None)
       /\ op.name = "height" => ret = Returns(PyInt(-1))
       /\ op.name = "num_vert" => ret = Returns(PyInt(size))
       /\ op.name = "is_balanced" => ret.exc = "none" /\ ret.val.t = "bool"

====
